---- MODULE Spec2Model ----
(***************************************************************************)
(* A model of ShapeMaster.py: the skin-colour calibration, the per-frame   *)
(* hand detection with its position smoother, the region of interest, the  *)
(* drawing canvas driven by the fingertip count, and the drawing scorer.   *)
(*                                                                         *)
(* What the image library computes from pixels (contours, areas, bounding  *)
(* boxes, patch statistics) is the input of the program: every action      *)
(* draws it from a small set with \E.                                      *)
(***************************************************************************)
EXTENDS Integers, Sequences, FiniteSets, TLC

\* Python's None, and an optional record: None or the record in a 1-tuple.
None == << >>

Some(v) == <<v>>

Max(a, b) == IF a >= b THEN a ELSE b

Min(a, b) == IF a <= b THEN a ELSE b

Abs(a) == IF a >= 0 THEN a ELSE 0 - a

\* Conversion of an integer to numpy uint8 (np.array(..., dtype=np.uint8)).
U8(x) == x % 256

(***************************************************************************)
(* Inputs of the calibration: the statistics of the sampled patch.         *)
(***************************************************************************)
PeakHues == {10, 47, 175}

HueStds == {2}

CrMeans == {22, 100, 150}

CbMeans == {60, 100}

CrCbStds == {0, 10}

Samples ==
  [peak_hue : PeakHues, std_dev_hsv : HueStds,
   cr_mean : CrMeans, cb_mean : CbMeans, std_dev_crcb : CrCbStds]

\* The frame size delivered by the camera (main: screen_h, screen_w).
ScreenW == 120

ScreenH == 100

VARIABLES
  lower_skin_hsv, upper_skin_hsv,      \* committed HSV range (triples or None)
  lower_skin_ycrcb, upper_skin_ycrcb,  \* committed YCrCb range (triples or None)
  weak_scalars,                        \* the scalar promotion of the numpy build: "legacy"
                                       \* or "weak", "unobserved" until a drift check ran
  calib_call,                          \* the last calibration call: its locals and its result
  pc,                                  \* where main / run_stage stands
  stage,                               \* index into STAGES of the running stage
  total_score,                         \* main: total_score
  reads,                               \* frames the frame source has delivered so far
  ref_cropped,                         \* run_stage: the reference mask, None, or not yet set
  canvas,                              \* the strokes on the white canvas, oldest first
  last_finger_point,                   \* global last_finger_point
  local_frame_count,                   \* run_stage: frames processed in this stage
  left,                                \* run_stage: whole seconds left in the stage
  roi_x, roi_y, roi_w, roi_h,          \* the region of interest: None or the integer in a 1-tuple
  kalman,                              \* the cv2.KalmanFilter: statePost and errorCovPost
  smoothed_center,                     \* global smoothed_center
  last_frame,                          \* the last frame of the drawing loop: its input, the
                                       \* smoother it started from, detect_hand's result
  score_call,                          \* the last call of correlation_score and its result
  error,                               \* the exception main ended with, "none" while it runs
  call                                 \* the last call of a helper on its own: its arguments
                                       \* and its result

calibVars ==
  <<lower_skin_hsv, upper_skin_hsv, lower_skin_ycrcb, upper_skin_ycrcb,
    weak_scalars, calib_call>>

stageVars ==
  <<pc, stage, total_score, reads, ref_cropped, canvas, last_finger_point,
    local_frame_count, left, roi_x, roi_y, roi_w, roi_h, kalman, smoothed_center,
    last_frame, error>>

vars == <<calibVars, stageVars, score_call, call>>

(***************************************************************************)
(* calibrate_skin_color: the four bounds computed from the centre patch.   *)
(***************************************************************************)
calibrate_skin_color(s) ==
  [l_hsv   |-> <<U8(Max(0, s.peak_hue - 2 * s.std_dev_hsv)), 30, 60>>,
   u_hsv   |-> <<U8(Min(180, s.peak_hue + 2 * s.std_dev_hsv)), 255, 255>>,
   l_ycrcb |-> <<0, U8(Max(133, s.cr_mean - s.std_dev_crcb)),
                    U8(Max(77, s.cb_mean - s.std_dev_crcb))>>,
   u_ycrcb |-> <<255, U8(Min(173, s.cr_mean + s.std_dev_crcb)),
                      U8(Min(127, s.cb_mean + s.std_dev_crcb))>>]

(***************************************************************************)
(* auto_calibrate_skin_color.                                              *)
(***************************************************************************)
\* The box sampled around (cx, cy) in a frame of width w and height h.
sample_box(cx, cy, w, h, box_size) ==
  [x1 |-> Max(cx - box_size \div 2, 0),
   y1 |-> Max(cy - box_size \div 2, 0),
   x2 |-> Min(cx + box_size \div 2, w - 1),
   y2 |-> Min(cy + box_size \div 2, h - 1)]

\* frame[y1:y2, x1:x2] has no pixel: cv2.cvtColor raises on it.
region_empty(b) == b.x2 <= b.x1 \/ b.y2 <= b.y1

\* The candidate ranges of the auto-recalibration.
new_ranges(s) ==
  [l_hsv   |-> <<U8(Max(0, s.peak_hue - 2 * s.std_dev_hsv)), 30, 60>>,
   u_hsv   |-> <<U8(Min(180, s.peak_hue + 2 * s.std_dev_hsv)), 255, 255>>,
   l_ycrcb |-> <<0, U8(Max(133, s.cr_mean - s.std_dev_crcb)),
                    U8(Max(77, s.cb_mean - s.std_dev_crcb))>>,
   u_ycrcb |-> <<255, U8(Min(173, s.cr_mean + s.std_dev_crcb)),
                      U8(Min(127, s.cb_mean + s.std_dev_crcb))>>]

\* (lower + upper) // 2 of two numpy uint8 scalars: the sum is a uint8.
old_mid(lo, up) == ((lo + up) % 256) \div 2

\* abs(peak_hue - old_hue): peak_hue is an int64 (np.argmax), no wrap.
diff_hue(s, lo, up) == Abs(s.peak_hue - old_mid(lo, up))

\* abs(cr_mean - old_cr): cr_mean is a Python int. With the legacy value-based
\* scalar promotion the difference is an int64; with the weak Python scalars of
\* NEP 50 (numpy 2) it is a uint8.
Promotions == {"legacy", "weak"}

diff_chroma(mean, lo, up, weak) ==
  IF weak = "weak" THEN (mean - old_mid(lo, up)) % 256
                   ELSE Abs(mean - old_mid(lo, up))

TH == 40

\* TRUE when the drift check rejects the sample.
drift_rejects(s, lh, uh, ly, uy, weak) ==
  \/ diff_hue(s, lh[1], uh[1]) > TH
  \/ diff_chroma(s.cr_mean, ly[2], uy[2], weak) > TH
  \/ diff_chroma(s.cb_mean, ly[3], uy[3], weak) > TH

\* auto_calibrate_skin_color(frame, cx, cy, 50) on a frame of w x h pixels whose
\* sampled region has the statistics s. The result is the four bounds after
\* the call, the returned box and whether the call raised.
auto_calibrate_skin_color(lh, uh, ly, uy, s, cx, cy, w, h, weak) ==
  LET box == sample_box(cx, cy, w, h, 50)
      new == new_ranges(s)
      keep == [l_hsv |-> lh, u_hsv |-> uh, l_ycrcb |-> ly, u_ycrcb |-> uy]
  IN  IF region_empty(box) \/ lh = None
        THEN [ranges |-> keep, ret |-> None, raised |-> TRUE, committed |-> FALSE]
      ELSE IF drift_rejects(s, lh, uh, ly, uy, weak)
        THEN [ranges |-> keep, ret |-> Some(box), raised |-> FALSE, committed |-> FALSE]
      ELSE [ranges |-> new, ret |-> Some(box), raised |-> FALSE, committed |-> TRUE]

(***************************************************************************)
(* The position smoother. Positions are kept in half pixels (the measured  *)
(* centre x + w / 2 is a multiple of one half), covariances in units of    *)
(* 1e-3; the float32 arithmetic of cv2.KalmanFilter is carried out in      *)
(* these units, rounding down. With the transition and measurement         *)
(* matrices of init_kalman_filter the x and y axes do not interact and     *)
(* have the same covariance block [[a, b], [b, c]] over (position,         *)
(* velocity).                                                              *)
(***************************************************************************)
ProcessNoise == 1

MeasurementNoise == 10

ErrorCovInit == 1000

use_kalman == TRUE

init_kalman_filter ==
  [x |-> 0, y |-> 0, vx |-> 0, vy |-> 0,
   a |-> ErrorCovInit, b |-> 0, c |-> ErrorCovInit]

set_kalman_position(kf, x, y) ==
  [kf EXCEPT !.x = x, !.y = y, !.vx = 0, !.vy = 0]

\* kf.predict(): statePost := F statePost, errorCovPost := F P F^T + Q.
kalman_predict(kf) ==
  [x |-> kf.x + kf.vx, y |-> kf.y + kf.vy, vx |-> kf.vx, vy |-> kf.vy,
   a |-> kf.a + 2 * kf.b + kf.c + ProcessNoise,
   b |-> kf.b + kf.c,
   c |-> kf.c + ProcessNoise]

\* kf.correct(z): gain K = P H^T (H P H^T + R)^-1, statePost := x + K (z - H x),
\* errorCovPost := P - K H P.
kalman_correct(kf, z) ==
  LET S == kf.a + MeasurementNoise
  IN  [x  |-> kf.x + (kf.a * (z[1] - kf.x)) \div S,
       y  |-> kf.y + (kf.a * (z[2] - kf.y)) \div S,
       vx |-> kf.vx + (kf.b * (z[1] - kf.x)) \div S,
       vy |-> kf.vy + (kf.b * (z[2] - kf.y)) \div S,
       a  |-> (kf.a * MeasurementNoise) \div S,
       b  |-> (kf.b * MeasurementNoise) \div S,
       c  |-> kf.c - (kf.b * kf.b) \div S]

\* update_kalman(kf, measured_x, measured_y); z is the measurement or None.
update_kalman(kf, z) ==
  LET pred == kalman_predict(kf)
  IN  IF z # None
        THEN LET corrected == kalman_correct(pred, z)
             IN  [kf |-> corrected, c |-> <<corrected.x, corrected.y>>]
        ELSE [kf |-> pred, c |-> <<pred.x, pred.y>>]

(***************************************************************************)
(* detect_hand. Its input det is what the image library finds in the       *)
(* region of interest:                                                     *)
(*   area_m    area of the largest contour of final_mask, 0 when there is  *)
(*             no contour; box its bounding rectangle (ROI coordinates)    *)
(*   after     the largest contour of biggest_mask after the forearm cut   *)
(*             (area2 and box), None when no contour is left               *)
(*   hull_len  number of points of its convex hull                         *)
(*   defects   cv2.convexityDefects found defects (is not None)            *)
(*   tips      the fingertip points the defect analysis, merging and       *)
(*             fallback arrive at (ROI coordinates)                        *)
(***************************************************************************)
seed_kalman_always(kf, sc, z) ==
  IF use_kalman THEN set_kalman_position(kf, z[1], z[2]) ELSE kf

\* "Initialize Kalman if needed": the filter is placed at the measurement z
\* when there is no smoothed centre yet.
seed_kalman(kf, sc, z) ==
  IF sc = None /\ use_kalman THEN set_kalman_position(kf, z[1], z[2]) ELSE kf

\* The measurement of a frame: the centre of the bounding box left after the
\* forearm cut, in half pixels of the whole frame.
measurement(b, offset_x, offset_y) ==
  <<2 * (b.x + offset_x) + b.w, 2 * (b.y + offset_y) + b.h>>

detect_hand(det, offset_x, offset_y, kf, sc) ==
  LET found == det.area_m > 0
      big   == found /\ det.area_m > 1000
      again == big /\ det.after # None
      hand  == again /\ det.after[1].area2 > 500
      max_contour ==
        IF again THEN Some([box |-> det.after[1].box, area |-> det.after[1].area2])
        ELSE IF found THEN Some([box |-> det.box, area |-> det.area_m])
        ELSE None
      z == measurement(det.after[1].box, offset_x, offset_y)
      seeded == seed_kalman(kf, sc, z)
      upd == update_kalman(seeded, z)
      extract == hand /\ det.hull_len > 3 /\ det.defects
      tips == IF extract THEN det.tips ELSE << >>
  IN  [final_fingertips |->
         [i \in 1..Len(tips) |-> <<tips[i][1] + offset_x, tips[i][2] + offset_y>>],
       max_contour |-> max_contour,
       kalman |-> IF hand /\ use_kalman THEN upd.kf ELSE kf,
       smoothed_center |-> IF hand THEN (IF use_kalman THEN upd.c ELSE z) ELSE sc,
       path |-> (IF big THEN {"trim"} ELSE {}) \cup
                (IF hand THEN {"smooth"} ELSE {}) \cup
                (IF extract THEN {"extract"} ELSE {})]

(***************************************************************************)
(* run_stage: the gesture logic on the canvas. The canvas is the white     *)
(* raster followed by the drawing calls made on it since it was last white:*)
(* a line from p to q of thickness r, or a filled white circle at p of     *)
(* radius r.                                                               *)
(***************************************************************************)
DistSq(p, q) == (p[1] - q[1]) * (p[1] - q[1]) + (p[2] - q[2]) * (p[2] - q[2])

\* The pair of the three fingertips the loops over i < j keep: the first pair
\* of least squared distance.
closest_pair_first_two(f) == <<f[1], f[2]>>

closest_pair(f) ==
  LET d12 == DistSq(f[1], f[2])
      d13 == DistSq(f[1], f[3])
      d23 == DistSq(f[2], f[3])
  IN  IF d12 <= d13 /\ d12 <= d23 THEN <<f[1], f[2]>>
      ELSE IF d13 <= d23 THEN <<f[1], f[3]>>
      ELSE <<f[2], f[3]>>

gesture(cv, last, f) ==
  LET fingers_count == Len(f)
  IN  IF fingers_count = 1 THEN
        [canvas |-> IF last # None
                      THEN Append(cv, [op |-> "line", p |-> last, q |-> f[1], r |-> 3])
                      ELSE cv,
         last_finger_point |-> f[1]]
      ELSE IF fingers_count \in {2, 3} THEN
        LET pair == IF fingers_count = 2 THEN <<f[1], f[2]>> ELSE closest_pair(f)
            mx == (pair[1][1] + pair[2][1]) \div 2
            my == (pair[1][2] + pair[2][2]) \div 2
        IN  [canvas |-> Append(cv, [op |-> "circle", p |-> <<mx, my>>, q |-> <<mx, my>>,
                                    r |-> 15]),
             last_finger_point |-> None]
      ELSE IF fingers_count = 5 THEN
        [canvas |-> << >>, last_finger_point |-> None]
      ELSE [canvas |-> cv, last_finger_point |-> last]

(***************************************************************************)
(* run_stage: the region of interest.                                      *)
(***************************************************************************)
\* "Ensure ROI stays within screen boundaries", at the top of every frame.
clamp_roi_right_only(x, y, w, h, screen_w, screen_h) ==
  [x |-> x, y |-> y,
   w |-> IF x + w > screen_w THEN screen_w - x ELSE w,
   h |-> IF y + h > screen_h THEN screen_h - y ELSE h]

clamp_roi(x, y, w, h, screen_w, screen_h) ==
  LET cx == Max(0, x)
      cy == Max(0, y)
  IN  [x |-> cx, y |-> cy,
       w |-> IF cx + w > screen_w THEN screen_w - cx ELSE w,
       h |-> IF cy + h > screen_h THEN screen_h - cy ELSE h]

\* "Adjust ROI dynamically to track the hand bounding box": r is the region
\* the contour with bounding box b was found in.
adjust_roi(r, b, screen_w, screen_h) ==
  LET new_w == (3 * b.w) \div 2
      new_h == (3 * b.h) \div 2
      cx_box == r.x + b.x + b.w \div 2
      cy_box == r.y + b.y + b.h \div 2
      nx == Max(0, cx_box - new_w \div 2)
      ny == Max(0, cy_box - new_h \div 2)
  IN  [x |-> IF nx + new_w > screen_w THEN screen_w - new_w ELSE nx,
       y |-> IF ny + new_h > screen_h THEN screen_h - new_h ELSE ny,
       w |-> new_w, h |-> new_h]

(***************************************************************************)
(* What a frame can show in a region of interest of rw x rh pixels.        *)
(***************************************************************************)
Box(x, y, w, h) == [x |-> x, y |-> y, w |-> w, h |-> h]

SpeckBox == Box(10, 10, 20, 15)

MidBox == Box(2, 2, 36, 30)

HandBox == Box(5, 5, 40, 41)

Fits(b, rw, rh) == b.x + b.w <= rw /\ b.y + b.h <= rh

\* The area enclosed by a contour of bounding box b: three quarters of the box.
ContourArea(b) == (3 * b.w * b.h) \div 4

\* What is left of a contour of box b when the forearm cut removes its lower
\* two thirds.
TopOf(b) == Box(b.x, b.y, b.w, b.h \div 3)

\* Fingertip points, as offsets from the corner of the bounding box.
TipPatterns ==
  << << >>,
     << <<10, 0>> >>,
     << <<4, 2>>, <<24, 0>> >>,
     << <<0, 10>>, <<30, 0>>, <<22, 3>> >>,
     << <<0, 10>>, <<10, 2>>, <<20, 0>>, <<30, 3>> >>,
     << <<0, 10>>, <<8, 3>>, <<16, 0>>, <<24, 2>>, <<32, 8>> >>,
     << <<0, 10>>, <<6, 3>>, <<13, 0>>, <<20, 0>>, <<27, 2>>, <<34, 8>> >> >>

TipsAt(b, pat) == [i \in 1..Len(pat) |-> <<b.x + pat[i][1], b.y + pat[i][2]>>]

NoContour ==
  [area_m |-> 0, box |-> Box(0, 0, 0, 0), after |-> None, hull_len |-> 0,
   defects |-> FALSE, tips |-> << >>]

\* A contour of box b, whole after the forearm cut, with the fingertips of
\* pattern k.
Whole(b, k) ==
  [area_m |-> ContourArea(b), box |-> b,
   after |-> Some([area2 |-> ContourArea(b), box |-> b]),
   hull_len |-> 8, defects |-> TRUE, tips |-> TipsAt(b, TipPatterns[k])]

Detections(rw, rh) ==
  {NoContour}
    \cup {Whole(b, 2) : b \in {c \in {SpeckBox, MidBox} : Fits(c, rw, rh)}}
    \cup {Whole(Box(0, 0, rw, rh), 1)}
    \cup {Whole(b, k) : b \in {c \in {HandBox} : Fits(c, rw, rh)},
                        k \in 1..Len(TipPatterns)}
    \cup {[Whole(b, 2) EXCEPT !.after = None] :
            b \in {c \in {HandBox} : Fits(c, rw, rh)}}
    \cup {[Whole(b, 2) EXCEPT
             !.after = Some([area2 |-> ContourArea(TopOf(b)), box |-> TopOf(b)])] :
            b \in {c \in {HandBox} : Fits(c, rw, rh)}}
    \cup {[Whole(b, 2) EXCEPT !.hull_len = 3] : b \in {c \in {HandBox} : Fits(c, rw, rh)}}
    \cup {[Whole(b, 2) EXCEPT !.defects = FALSE] :
            b \in {c \in {HandBox} : Fits(c, rw, rh)}}

\* The scenes that matter to the tracking: every contour, with at most one
\* fingertip.
TrackScenes(rw, rh) == {d \in Detections(rw, rh) : Len(d.tips) <= 1}

\* The scenes that matter to the drawing: no contour, or the hand with every
\* pattern of fingertips.
DrawScenes(rw, rh) ==
  {NoContour} \cup {Whole(b, k) : b \in {c \in {HandBox} : Fits(c, rw, rh)},
                                  k \in 1..Len(TipPatterns)}

\* The scenes of a long stage: no contour, or the hand with no fingertip.
LongScenes(rw, rh) ==
  {NoContour} \cup {Whole(b, 1) : b \in {c \in {HandBox} : Fits(c, rw, rh)}}

(***************************************************************************)
(* correlation_score. An image is a function from the pixels <<x, y>> of a *)
(* strip of StripW x StripH pixels to gray values; a binary or dilated     *)
(* mask is the set of its pixels of value 255. The score is kept in        *)
(* hundredths of a point, rounded down, where the code has a float.        *)
(***************************************************************************)
StripW == 70

StripH == 1

Grid == (1..StripW) \X (1..StripH)

\* cv2.bitwise_not of a gray image.
bitwise_not(img) == [p \in DOMAIN img |-> 255 - img[p]]

\* cv2.threshold(img, 127, 255, cv2.THRESH_BINARY_INV): 255 where img <= 127.
threshold_binary_inv(img) == {p \in DOMAIN img : img[p] <= 127}

\* cv2.getStructuringElement(cv2.MORPH_ELLIPSE, (10, 10)): the row dy below
\* the anchor (5, 5) holds the columns -hw..hw around it, cut to the 10
\* columns -5..4 of the kernel, where hw is sqrt(25 - dy * dy) rounded.
kernel_half_width(dy) ==
  LET v == 4 * (25 - dy * dy)
  IN  CHOOSE d \in 0..5 :
        /\ v < (2 * d + 1) * (2 * d + 1)
        /\ d = 0 \/ (2 * d - 1) * (2 * d - 1) <= v

in_kernel(dx, dy) ==
  /\ dy \in -5..4
  /\ dx \in -5..4
  /\ Abs(dx) <= kernel_half_width(dy)

\* The offsets, from the anchor, of the pixels the kernel covers.
Kernel == {k \in (-5..4) \X (-5..4) : in_kernel(k[1], k[2])}

\* One cv2.dilate of the mask S: a pixel of the image is set when the kernel
\* anchored on it covers a set pixel.
dilate_once(S) ==
  {p \in {<<s[1] - k[1], s[2] - k[2]>> : s \in S, k \in Kernel} : p \in Grid}

RECURSIVE dilate(_, _)
dilate(S, iterations) ==
  IF iterations = 0 THEN S ELSE dilate(dilate_once(S), iterations - 1)

\* accuracy * 100 * factor capped at 100, in hundredths.
final_score_no_factor(overlap, union) ==
  IF union = 0 THEN 0 ELSE Min((overlap * 10000) \div union, 10000)

final_score_uncapped(overlap, union) ==
  IF union = 0 THEN 0 ELSE (overlap * 11000) \div union

final_score(overlap, union) ==
  IF union = 0 THEN 0 ELSE Min((overlap * 11000) \div union, 10000)

correlation_score(user_gray, ref_img) ==
  LET ref_gray == bitwise_not(ref_img)
      user_bin == threshold_binary_inv(user_gray)
      ref_bin  == threshold_binary_inv(ref_gray)
      user_dil == dilate(user_bin, 6)
      ref_dil  == dilate(ref_bin, 6)
      overlap  == Cardinality(user_dil \cap ref_dil)
      union    == Cardinality(user_dil \cup ref_dil)
  IN  [final_score |-> final_score(overlap, union),
       user_dil |-> user_dil, ref_dil |-> ref_dil,
       user_bin |-> user_bin, ref_bin |-> ref_bin]

\* The pictures scored: marks of the gray value ink on a ground of the gray
\* value paper.
Picture(S, ink, paper) == [p \in Grid |-> IF p \in S THEN ink ELSE paper]

Marks == {3, 40, 68}

Shapes == {{<<x, 1>> : x \in M} : M \in SUBSET Marks}

\* The user's drawing is dark on light, the reference light on dark.
UserImages == {Picture(S, 0, 255) : S \in Shapes} \cup {Picture(S, 127, 128) : S \in Shapes}

RefMasks == {Picture(S, 255, 0) : S \in Shapes} \cup {Picture(S, 128, 127) : S \in Shapes}

NoScore ==
  [op |-> "none", user_img |-> Picture({}, 0, 255), ref_img |-> Picture({}, 255, 0),
   result |-> [final_score |-> 0, user_dil |-> {}, ref_dil |-> {}, user_bin |-> {},
               ref_bin |-> {}]]

(***************************************************************************)
(* main and run_stage.                                                     *)
(***************************************************************************)
STAGES == <<"easy", "medium", "hard">>

auto_calib_interval == 70

TIME_LIMIT == 15

\* The frame source delivers at most MaxReads frames.
MaxReads == 4

\* A long stage: enough frames for one auto-recalibration.
LongReads == auto_calib_interval + 2

\* The whole seconds left that a frame of the drawing loop can see.
Lefts == {0, TIME_LIMIT - 1}

Keys == {"none", "q"}

\* The scores correlation_score can return for the canvas and the reference.
ScoreValues == {55}

\* The reference picture of a stage: no file, a file cv2.imread cannot read,
\* or an image.
RefImages == {"missing", "unreadable", "image"}

StageSamples ==
  {[peak_hue |-> 10, std_dev_hsv |-> 2, cr_mean |-> 150, cb_mean |-> 100,
    std_dev_crcb |-> 10]}

NoCall ==
  [op |-> "none", s |-> None, centre |-> None, before |-> None, ret |-> None,
   committed |-> FALSE]

\* last_frame before the first frame of the drawing loop. raised names the
\* call that raised in the frame, after_gap tells that the frame before found
\* no hand, scored that the frame went through the scoring, roi is the region
\* detect_hand was called on.
NoFrameYet ==
  [n |-> 0, raised |-> "none", scored |-> FALSE, det |-> NoContour,
   offset |-> <<0, 0>>, roi |-> [x |-> 0, y |-> 0, w |-> 0, h |-> 0],
   kalman |-> init_kalman_filter, smoothed_center |-> None, after_gap |-> FALSE,
   final_fingertips |-> << >>, max_contour |-> None, path |-> {},
   calib_centre |-> None]

\* The module globals, and main up to the loop over STAGES.
Globals ==
  /\ lower_skin_hsv = None /\ upper_skin_hsv = None
  /\ lower_skin_ycrcb = None /\ upper_skin_ycrcb = None
  /\ weak_scalars = "unobserved"
  /\ calib_call = NoCall
  /\ pc = "stage_start"
  /\ stage = 1
  /\ total_score = 0
  /\ reads = 0
  /\ ref_cropped = "unset"
  /\ canvas = << >>
  /\ last_finger_point = None
  /\ local_frame_count = 0
  /\ left = 0
  /\ roi_x = None /\ roi_y = None /\ roi_w = None /\ roi_h = None
  /\ kalman = init_kalman_filter
  /\ smoothed_center = None
  /\ last_frame = NoFrameYet
  /\ error = "none"

\* No helper has been called on its own.
NoHelperCall == [op |-> "none"]

Init == Globals /\ score_call = NoScore /\ call = NoHelperCall

\* run_stage returns: main goes on to the next stage or to the final score.
Returned ==
  IF stage < Len(STAGES)
    THEN pc' = "stage_start" /\ stage' = stage + 1
    ELSE pc' = "game_over" /\ stage' = stage

\* run_stage up to the countdown: the reference picture is chosen and loaded.
\* With no picture ref_edges is never assigned and reading it raises; an
\* unreadable picture leaves ref_cropped None.
StartStage(img) ==
  /\ pc = "stage_start"
  /\ pc' = IF img = "missing" THEN "crashed" ELSE "countdown"
  /\ error' = IF img = "missing" THEN "UnboundLocalError: ref_edges" ELSE error
  /\ ref_cropped' = IF img = "missing" THEN ref_cropped
                    ELSE IF img = "unreadable" THEN "None" ELSE "mask"
  /\ UNCHANGED <<calibVars, stage, total_score, reads, canvas, last_finger_point,
                 local_frame_count, left, roi_x, roi_y, roi_w, roi_h, kalman,
                 smoothed_center, last_frame, score_call, call>>

\* One frame of the countdown: the reference is overlaid on the frame (which
\* raises on a None reference), then 'q' returns from the stage.
CountdownFrame(key, limit) ==
  /\ pc = "countdown"
  /\ reads < limit
  /\ reads' = reads + 1
  /\ IF ref_cropped = "None" THEN pc' = "crashed" /\ stage' = stage
     ELSE IF key = "q" THEN Returned
     ELSE pc' = "countdown" /\ stage' = stage
  /\ error' = IF ref_cropped = "None" THEN "AttributeError: ref_cropped" ELSE error
  /\ UNCHANGED <<calibVars, total_score, ref_cropped, canvas, last_finger_point,
                 local_frame_count, left, roi_x, roi_y, roi_w, roi_h, kalman,
                 smoothed_center, last_frame, score_call, call>>

\* The countdown is over, or the frame source had no frame.
CountdownEnd ==
  /\ pc = "countdown"
  /\ pc' = "calibrate"
  /\ UNCHANGED <<calibVars, stage, total_score, reads, ref_cropped, canvas,
                 last_finger_point, local_frame_count, left, roi_x, roi_y, roi_w,
                 roi_h, kalman, smoothed_center, last_frame, error, score_call, call>>

\* After the countdown: calibrate on a frame if there is one, then set up the
\* canvas, the timer and, when it is not set, the region of interest.
CalibrateRead(ret, s, limit) ==
  /\ pc = "calibrate"
  /\ ret => reads < limit
  /\ reads' = IF ret THEN reads + 1 ELSE reads
  /\ IF ret
       THEN LET r == calibrate_skin_color(s)
            IN  /\ lower_skin_hsv' = r.l_hsv
                /\ upper_skin_hsv' = r.u_hsv
                /\ lower_skin_ycrcb' = r.l_ycrcb
                /\ upper_skin_ycrcb' = r.u_ycrcb
                /\ calib_call' = [op |-> "manual", s |-> Some(s), centre |-> None,
                                  before |-> None, ret |-> None, committed |-> TRUE]
       ELSE UNCHANGED <<lower_skin_hsv, upper_skin_hsv, lower_skin_ycrcb,
                        upper_skin_ycrcb, calib_call>>
  /\ canvas' = << >>
  /\ last_finger_point' = None
  /\ local_frame_count' = 0
  /\ left' = TIME_LIMIT
  /\ IF roi_x = None \/ roi_y = None \/ roi_w = None \/ roi_h = None
       THEN /\ roi_x' = Some(ScreenW \div 2 - 25)
            /\ roi_y' = Some(ScreenH \div 2 - 25)
            /\ roi_w' = Some(50)
            /\ roi_h' = Some(50)
       ELSE UNCHANGED <<roi_x, roi_y, roi_w, roi_h>>
  /\ pc' = "loop"
  /\ UNCHANGED <<weak_scalars, stage, total_score, ref_cropped, kalman,
                 smoothed_center, last_frame, error, score_call, call>>

\* The drawing loop finds no frame: break, and the code after the loop reads
\* user_bin, which only the scoring assigns.
NoFrame ==
  /\ pc = "loop"
  /\ pc' = "crashed"
  /\ error' = "UnboundLocalError: user_bin"
  /\ UNCHANGED <<calibVars, stage, total_score, reads, ref_cropped, canvas,
                 last_finger_point, local_frame_count, left, roi_x, roi_y, roi_w,
                 roi_h, kalman, smoothed_center, last_frame, score_call, call>>

\* The stage's time has run out: the frame is the one that scores.
time_is_up_flipped(l) == l >= 0

time_is_up(l) == l <= 0

\* One iteration of the drawing loop on a frame: det is what the frame shows
\* in the region of interest, l the seconds left, key the key pressed, s the
\* statistics of the patch an auto-recalibration would sample, score what the
\* scorer would return.
Frame(det, l, key, s, np, score, limit) ==
  /\ pc = "loop"
  /\ reads < limit
  /\ l <= left
  /\ weak_scalars \in {"unobserved", np}
  /\ LET cl == clamp_roi(roi_x[1], roi_y[1], roi_w[1], roi_h[1], ScreenW, ScreenH)
         \* roi_frame has no pixel, or the ranges are None: detect_hand raises
         no_detect == cl.w <= 0 \/ cl.h <= 0 \/ cl.x >= ScreenW \/ cl.y >= ScreenH
                        \/ lower_skin_hsv = None
         d == detect_hand(det, cl.x, cl.y, kalman, smoothed_center)
         has == d.max_contour # None
         b == d.max_contour[1].box
         nr == IF has THEN adjust_roi(cl, b, ScreenW, ScreenH) ELSE cl
         calibrate == (local_frame_count + 1) % auto_calib_interval = 0 /\ has
         centre == <<nr.x + b.x + b.w \div 2, nr.y + b.y + b.h \div 2>>
         ac == auto_calibrate_skin_color(lower_skin_hsv, upper_skin_hsv,
                                         lower_skin_ycrcb, upper_skin_ycrcb, s,
                                         centre[1], centre[2], ScreenW, ScreenH, np)
         no_calib == calibrate /\ ac.raised
         g == gesture(canvas, last_finger_point, d.final_fingertips)
         \* the reference is overlaid when less than 5 seconds are left
         no_overlay == l < 5 /\ ref_cropped = "None"
         raised == no_detect \/ no_calib \/ no_overlay
     IN  /\ det.area_m > 0 => Fits(det.box, cl.w, cl.h)
         /\ reads' = reads + 1
         /\ local_frame_count' = local_frame_count + 1
         /\ left' = l
         /\ roi_x' = Some(IF no_detect THEN cl.x ELSE nr.x)
         /\ roi_y' = Some(IF no_detect THEN cl.y ELSE nr.y)
         /\ roi_w' = Some(IF no_detect THEN cl.w ELSE nr.w)
         /\ roi_h' = Some(IF no_detect THEN cl.h ELSE nr.h)
         /\ kalman' = IF no_detect THEN kalman ELSE d.kalman
         /\ smoothed_center' = IF no_detect THEN smoothed_center ELSE d.smoothed_center
         /\ last_frame' =
              IF no_detect
                THEN [NoFrameYet EXCEPT !.n = local_frame_count + 1,
                                        !.raised = "detect_hand", !.roi = cl]
              ELSE [n |-> local_frame_count + 1,
                    raised |-> IF no_calib THEN "auto_calibrate_skin_color"
                               ELSE IF no_overlay THEN "transparent_overlay_edges"
                               ELSE "none",
                    scored |-> ~raised /\ key # "q" /\ time_is_up(l),
                    det |-> det, offset |-> <<cl.x, cl.y>>, roi |-> cl,
                    kalman |-> kalman, smoothed_center |-> smoothed_center,
                    after_gap |-> last_frame.n > 0 /\ "smooth" \notin last_frame.path,
                    final_fingertips |-> d.final_fingertips,
                    max_contour |-> d.max_contour, path |-> d.path,
                    calib_centre |-> IF calibrate THEN centre ELSE None]
         /\ IF ~no_detect /\ calibrate
              THEN /\ lower_skin_hsv' = ac.ranges.l_hsv
                   /\ upper_skin_hsv' = ac.ranges.u_hsv
                   /\ lower_skin_ycrcb' = ac.ranges.l_ycrcb
                   /\ upper_skin_ycrcb' = ac.ranges.u_ycrcb
                   /\ calib_call' =
                        [op |-> IF ac.raised THEN "raised" ELSE "auto",
                         s |-> Some(s), centre |-> centre,
                         before |-> Some([l_hsv |-> lower_skin_hsv,
                                          u_hsv |-> upper_skin_hsv,
                                          l_ycrcb |-> lower_skin_ycrcb,
                                          u_ycrcb |-> upper_skin_ycrcb]),
                         ret |-> ac.ret, committed |-> ac.committed]
                   /\ weak_scalars' = IF ac.raised THEN weak_scalars ELSE np
              ELSE UNCHANGED <<lower_skin_hsv, upper_skin_hsv, lower_skin_ycrcb,
                               upper_skin_ycrcb, calib_call, weak_scalars>>
         /\ canvas' = IF no_detect \/ no_calib THEN canvas ELSE g.canvas
         /\ last_finger_point' = IF no_detect \/ no_calib THEN last_finger_point
                                 ELSE g.last_finger_point
         /\ error' = IF no_detect \/ no_calib THEN "cv2.error"
                      ELSE IF no_overlay THEN "AttributeError: ref_cropped"
                      ELSE IF key = "q" THEN "UnboundLocalError: user_bin"
                      ELSE error
         /\ IF raised \/ key = "q"
              \* 'q' breaks the loop before the scoring: user_bin is unassigned
              THEN pc' = "crashed" /\ stage' = stage /\ total_score' = total_score
            ELSE IF time_is_up(l)
              \* time is up: the canvas is scored and run_stage returns
              THEN Returned /\ total_score' = total_score + score
            ELSE pc' = "loop" /\ stage' = stage /\ total_score' = total_score
  /\ UNCHANGED <<ref_cropped, score_call, call>>

StartStageStep == \E img \in RefImages : StartStage(img)

CountdownFrameStep == \E key \in Keys : CountdownFrame(key, MaxReads)

CalibrateReadStep ==
  \E ret \in BOOLEAN : \E s \in StageSamples : CalibrateRead(ret, s, MaxReads)

\* The region of interest the next frame is cut to.
Clamped == clamp_roi(roi_x[1], roi_y[1], roi_w[1], roi_h[1], ScreenW, ScreenH)

FrameStep ==
  /\ pc = "loop"
  /\ \E det \in TrackScenes(Clamped.w, Clamped.h) :
       \E l \in Lefts : \E key \in Keys : \E s \in StageSamples : \E np \in Promotions :
         \E score \in ScoreValues : Frame(det, l, key, s, np, score, MaxReads)

Next ==
  \/ StartStageStep
  \/ CountdownFrameStep
  \/ CountdownEnd
  \/ CalibrateReadStep
  \/ FrameStep
  \/ NoFrame

Spec == Init /\ [][Next]_vars

(***************************************************************************)
(* The same program in front of a hand that shows every number of fingers. *)
(***************************************************************************)
DrawFrameStep ==
  /\ pc = "loop"
  /\ \E det \in DrawScenes(Clamped.w, Clamped.h) :
       \E l \in Lefts : \E key \in Keys : \E s \in StageSamples : \E np \in Promotions :
         \E score \in ScoreValues : Frame(det, l, key, s, np, score, MaxReads)

NextDraw ==
  \/ StartStageStep
  \/ CountdownFrameStep
  \/ CountdownEnd
  \/ CalibrateReadStep
  \/ DrawFrameStep
  \/ NoFrame

SpecDraw == Init /\ [][NextDraw]_vars

(***************************************************************************)
(* The same program over a stage long enough for an auto-recalibration:    *)
(* the camera is fast enough for auto_calib_interval frames in TIME_LIMIT  *)
(* seconds, the countdown sees at most the first MaxReads frames, and no   *)
(* key is pressed.                                                         *)
(***************************************************************************)
LongKeys == {"none"}

LongCountdownFrameStep == \E key \in LongKeys : CountdownFrame(key, MaxReads)

LongCalibrateReadStep ==
  \E ret \in BOOLEAN : \E s \in StageSamples : CalibrateRead(ret, s, LongReads)

LongFrameStep ==
  /\ pc = "loop"
  /\ \E det \in LongScenes(Clamped.w, Clamped.h) :
       \E key \in LongKeys : \E s \in StageSamples : \E np \in Promotions :
         \E score \in ScoreValues :
           Frame(det, TIME_LIMIT - 1, key, s, np, score, LongReads)

NextLong ==
  \/ StartStageStep
  \/ LongCountdownFrameStep
  \/ CountdownEnd
  \/ LongCalibrateReadStep
  \/ LongFrameStep
  \/ NoFrame

SpecLong == Init /\ [][NextLong]_vars

(***************************************************************************)
(* The calibrator on its own: the two calibrations called directly.        *)
(***************************************************************************)
CalibCentres == {<<60, 50>>, <<5, 5>>}

CalibInit == Init

\* run_stage: calibrate on the frame read after the countdown, then commit.
ManualCalibrate(s) ==
  LET r == calibrate_skin_color(s)
  IN  /\ lower_skin_hsv' = r.l_hsv
      /\ upper_skin_hsv' = r.u_hsv
      /\ lower_skin_ycrcb' = r.l_ycrcb
      /\ upper_skin_ycrcb' = r.u_ycrcb
      /\ calib_call' = [op |-> "manual", s |-> Some(s), centre |-> None, before |-> None,
                        ret |-> None, committed |-> TRUE]
      /\ UNCHANGED <<weak_scalars, stageVars, score_call, call>>

AutoCalibrate(s, c, np) ==
  LET r == auto_calibrate_skin_color(lower_skin_hsv, upper_skin_hsv,
                                     lower_skin_ycrcb, upper_skin_ycrcb,
                                     s, c[1], c[2], ScreenW, ScreenH, np)
  IN  /\ lower_skin_hsv # None
      /\ weak_scalars \in {"unobserved", np}
      /\ weak_scalars' = np
      /\ ~r.raised
      /\ lower_skin_hsv' = r.ranges.l_hsv
      /\ upper_skin_hsv' = r.ranges.u_hsv
      /\ lower_skin_ycrcb' = r.ranges.l_ycrcb
      /\ upper_skin_ycrcb' = r.ranges.u_ycrcb
      /\ calib_call' = [op |-> "auto", s |-> Some(s), centre |-> c,
                        before |-> Some([l_hsv |-> lower_skin_hsv,
                                         u_hsv |-> upper_skin_hsv,
                                         l_ycrcb |-> lower_skin_ycrcb,
                                         u_ycrcb |-> upper_skin_ycrcb]),
                        ret |-> r.ret, committed |-> r.committed]
      /\ UNCHANGED <<stageVars, score_call, call>>

CalibManualStep == \E s \in Samples : ManualCalibrate(s)

CalibAutoStep ==
  \E s \in Samples : \E c \in CalibCentres : \E np \in Promotions : AutoCalibrate(s, c, np)

CalibNext == CalibManualStep \/ CalibAutoStep

SpecCalib == CalibInit /\ [][CalibNext]_vars

(***************************************************************************)
(* The scorer on its own: correlation_score called on two pictures.        *)
(***************************************************************************)
\* The two pictures are drawn first, then scored once.
ScoreInit ==
  /\ Globals
  /\ call = NoHelperCall
  /\ \E user_img \in UserImages : \E ref_img \in RefMasks :
       score_call = [NoScore EXCEPT !.op = "input", !.user_img = user_img,
                                    !.ref_img = ref_img]

Score ==
  /\ score_call.op = "input"
  /\ score_call' = [score_call EXCEPT
                      !.op = "score",
                      !.result = correlation_score(score_call.user_img,
                                                   score_call.ref_img)]
  /\ UNCHANGED <<calibVars, stageVars, call>>

ScoreNext == Score

SpecScore == ScoreInit /\ [][ScoreNext]_vars

(***************************************************************************)
(* The scoring branch of run_stage: the reference mask is fitted to the    *)
(* size of the user drawing. A mask is the set of its foreground pixels    *)
(* <<row, column>>, counted from 0.                                        *)
(***************************************************************************)
\* The largest height and width of a reference mask.
RefMax == 4

\* The canvas, and so the user drawing, has CanvasRows x CanvasCols pixels.
CanvasRows == 2

CanvasCols == 3

\* top and left_: where the reference starts in the padded picture.
pad_offset_corner(ref_len, user_len) == 0

pad_offset(ref_len, user_len) ==
  IF ref_len < user_len THEN (user_len - ref_len) \div 2 ELSE 0

\* ref_matched for a reference of h_ref x w_ref pixels and a user drawing of
\* h_user x w_user pixels.
match_reference(ref, h_ref, w_ref, h_user, w_user) ==
  IF h_user # h_ref \/ w_user # w_ref
    THEN LET top == pad_offset(h_ref, h_user)
             left_ == pad_offset(w_ref, w_user)
             copy_h == Min(h_ref, h_user)
             copy_w == Min(w_ref, w_user)
         IN  {<<top + p[1], left_ + p[2]>> :
                p \in {q \in ref : q[1] < copy_h /\ q[2] < copy_w}}
    ELSE ref

\* The reference masks of h x w pixels with at most two foreground pixels.
RefPictures(h, w) ==
  LET G == (0..(h - 1)) \X (0..(w - 1))
  IN  {{}} \cup {{p, q} : p \in G, q \in G}

PadInit ==
  /\ Globals
  /\ score_call = NoScore
  /\ \E h_ref \in 1..RefMax : \E w_ref \in 1..RefMax :
       \E ref \in RefPictures(h_ref, w_ref) :
         call = [op |-> "input", ref |-> ref, h_ref |-> h_ref, w_ref |-> w_ref,
                 h_user |-> CanvasRows, w_user |-> CanvasCols, ref_matched |-> {}]

MatchReference ==
  /\ call.op = "input"
  /\ call' = [call EXCEPT
                !.op = "match_reference",
                !.ref_matched = match_reference(call.ref, call.h_ref, call.w_ref,
                                                call.h_user, call.w_user)]
  /\ UNCHANGED <<calibVars, stageVars, score_call>>

PadNext == MatchReference

SpecPad == PadInit /\ [][PadNext]_vars

(***************************************************************************)
(* cut_forearm_automatically: the mask is the set of its non-zero pixels   *)
(* <<row, column>>; the result is the returned flag and the mask as the    *)
(* call leaves it.                                                         *)
(***************************************************************************)
\* detect_hand calls it with min_ratio 0.5 and consecutive_rows 2.
consecutive_rows == 2

\* right - left + 1 over the non-zero columns of the row inside the box.
row_width(mask, row, x, w) ==
  LET cols == {c \in x..(x + w - 1) : <<row, c>> \in mask}
  IN  IF cols = {} THEN 0
      ELSE (CHOOSE c \in cols : \A e \in cols : e <= c)
             - (CHOOSE c \in cols : \A e \in cols : c <= e) + 1

\* row_widths, from the bottom row of the box upwards (element i + 1 is the
\* code's row_widths[i]).
row_widths(mask, x, y, w, h) ==
  [k \in 1..h |-> row_width(mask, y + h - k, x, w)]

\* w_prev > 0 and w_curr < min_ratio * w_prev, with min_ratio 0.5.
narrows_at_half(w_prev, w_curr) == w_prev > 0 /\ 2 * w_curr <= w_prev

narrows(w_prev, w_curr) == w_prev > 0 /\ 2 * w_curr < w_prev

\* consecutive_count after the loop body for index i (0 before the loop).
RECURSIVE consecutive_count(_, _)
consecutive_count(rw, i) ==
  IF i = 0 THEN 0
  ELSE IF narrows(rw[i], rw[i + 1]) THEN consecutive_count(rw, i - 1) + 1
  ELSE 0

cut_forearm_automatically(mask, x, y, w, h) ==
  IF h < 10 THEN [ret |-> FALSE, mask |-> mask]
  ELSE LET rw == row_widths(mask, x, y, w, h)
           hits == {i \in 1..(h - 1) : consecutive_count(rw, i) >= consecutive_rows}
       IN  IF hits = {} THEN [ret |-> FALSE, mask |-> mask]
           ELSE LET i == CHOOSE j \in hits : \A k \in hits : j <= k
                    row_cut == (y + h - 1) - i
                IN  [ret |-> TRUE,
                     mask |-> {p \in mask : ~(/\ p[1] >= row_cut /\ p[1] < y + h
                                              /\ p[2] >= x /\ p[2] < x + w)}]

\* The width of the bounding box of the arm, which its bottom rows fill.
ArmWidth == 20

\* The row widths the arm can narrow to, the heights of its bounding box and
\* the places of the box in the mask.
NarrowWidths == {0, 4, 9, 10, ArmWidth}

HandWidths == {1, 4, ArmWidth}

ArmHeights == {9, 10, 12}

ArmCorners == {<<0, 0>>, <<3, 2>>}

\* One row of the mask: w pixels in the middle of the box, or only the two
\* ends of such a run.
ArmRow(row, x, w, hollow) ==
  LET first == x + (ArmWidth - w) \div 2
  IN  IF w = 0 THEN {}
      ELSE IF hollow THEN {<<row, first>>, <<row, first + w - 1>>}
      ELSE {<<row, c>> : c \in first..(first + w - 1)}

\* The contour of an arm drawn into the mask: n rows of full width at the
\* bottom, then rows t1 and t2 wide, then the hand, b wide, up to the top.
ArmMask(x, y, h, n, t1, t2, b, hollow) ==
  UNION {ArmRow(y + h - k, x,
                IF k <= n THEN ArmWidth
                ELSE IF k = n + 1 THEN t1
                ELSE IF k = n + 2 THEN t2
                ELSE IF k = h THEN ArmWidth ELSE b,
                hollow) : k \in 1..h}

CutInit ==
  /\ Globals
  /\ score_call = NoScore
  /\ \E c \in ArmCorners : \E h \in ArmHeights : \E n \in {1, 3, h - 3} :
       \E t1 \in NarrowWidths : \E t2 \in NarrowWidths : \E b \in HandWidths :
         \E hollow \in BOOLEAN :
           call = [op |-> "input", x |-> c[2], y |-> c[1], w |-> ArmWidth, h |-> h,
                   mask |-> ArmMask(c[2], c[1], h, n, t1, t2, b, hollow),
                   ret |-> FALSE, out |-> {}]

CutForearm ==
  /\ call.op = "input"
  /\ LET r == cut_forearm_automatically(call.mask, call.x, call.y, call.w, call.h)
     IN  call' = [call EXCEPT !.op = "cut_forearm_automatically",
                              !.ret = r.ret, !.out = r.mask]
  /\ UNCHANGED <<calibVars, stageVars, score_call>>

CutNext == CutForearm

SpecCut == CutInit /\ [][CutNext]_vars

(***************************************************************************)
(* merge_close_points: points are pairs <<x, y>>, lists are sequences.     *)
(***************************************************************************)
\* detect_hand calls it with distance_threshold = 20.
distance_threshold == 20

\* dist < distance_threshold, for dist = np.hypot of the differences.
is_close_or_at(pt, mp) == DistSq(pt, mp) <= distance_threshold * distance_threshold

is_close(pt, mp) == DistSq(pt, mp) < distance_threshold * distance_threshold

\* One turn of the loop over points: pt replaces the first point of merged
\* it is close to by their integer midpoint, or is appended.
merge_point(merged, pt) ==
  LET found == {i \in 1..Len(merged) : is_close(pt, merged[i])}
  IN  IF found = {} THEN Append(merged, pt)
      ELSE LET i == CHOOSE j \in found : \A k \in found : j <= k
           IN  [merged EXCEPT ![i] = <<(pt[1] + merged[i][1]) \div 2,
                                       (pt[2] + merged[i][2]) \div 2>>]

\* merged after the first n points.
RECURSIVE merged_after(_, _)
merged_after(points, n) ==
  IF n = 0 THEN << >> ELSE merge_point(merged_after(points, n - 1), points[n])

merge_close_points(points) == merged_after(points, Len(points))

\* The coordinates of the points merged on their own.
MergeXs == {0, 12, 19, 20, 21}

MergeYs == {0, 5, 16, 33}

MergeInit ==
  /\ Globals
  /\ score_call = NoScore
  /\ \E p \in MergeXs \X MergeYs : \E q \in MergeXs \X MergeYs :
       call = [op |-> "input", points |-> <<p, q>>, merged |-> << >>]

MergeClosePoints ==
  /\ call.op = "input"
  /\ call' = [call EXCEPT !.op = "merge_close_points",
                          !.merged = merge_close_points(call.points)]
  /\ UNCHANGED <<calibVars, stageVars, score_call>>

MergeNext == MergeClosePoints

SpecMerge == MergeInit /\ [][MergeNext]_vars

(***************************************************************************)
(* detect_hand: the fingertips of a hand contour (area2 > 500). The contour*)
(* is the sequence of its points, with its bounding box and palm centre;   *)
(* hull_len is len(hull); defects is None or the rows of convexityDefects, *)
(* each with its three contour points, its depth d and the angle at far,   *)
(* in whole degrees. Distances are compared by their squares.              *)
(***************************************************************************)
\* fallback_single_finger is called with min_radius = 50.
min_radius == 50

\* y < wrist_threshold_y, with wrist_threshold_y = yF + 0.65 * hF.
above_wrist(y, box) == 20 * (y - box.y) < 13 * box.h

\* best_point of fallback_single_finger: the first point of the contour at
\* the largest distance from the centre, when that distance is above
\* min_radius.
fallback_single_finger(contour, center) ==
  LET far == {i \in 1..Len(contour) :
                /\ DistSq(contour[i], center) > 0
                /\ \A j \in 1..Len(contour) :
                     DistSq(contour[j], center) <= DistSq(contour[i], center)}
  IN  IF far = {} THEN None
      ELSE LET i == CHOOSE j \in far : \A k \in far : j <= k
           IN  IF DistSq(contour[i], center) > min_radius * min_radius
                 THEN Some(contour[i]) ELSE None

\* "Threshold on defect depth (d) and angle", "Further filter based on
\* location".
is_candidate(df, box) ==
  /\ df.d > 5000
  /\ df.ang < 100
  /\ above_wrist(df.far[2], box)
  /\ above_wrist(df.start[2], box)
  /\ above_wrist(df.end[2], box)

\* candidate_points: start and end of every defect that passes, each with the
\* square of its distance to far.
candidate_points(defects, box) ==
  LET passed == SelectSeq(defects, LAMBDA df : is_candidate(df, box))
  IN  [k \in 1..(2 * Len(passed)) |->
         LET df == passed[(k + 1) \div 2]
         IN  IF k % 2 = 1
               THEN [pt |-> df.start, dist |-> DistSq(df.start, df.far)]
               ELSE [pt |-> df.end, dist |-> DistSq(df.end, df.far)]]

\* filtered_candidates: the candidates within 2.2 times ref_distance of the
\* highest candidate (the first of least y).
filtered_candidates(cand) ==
  LET top == CHOOSE i \in 1..Len(cand) :
               /\ \A j \in 1..Len(cand) : cand[i].pt[2] <= cand[j].pt[2]
               /\ \A j \in 1..(i - 1) : cand[j].pt[2] > cand[i].pt[2]
      kept == SelectSeq(cand, LAMBDA c :
                25 * DistSq(c.pt, cand[top].pt) <= 121 * cand[top].dist)
  IN  [k \in 1..Len(kept) |-> kept[k].pt]

\* final_fingertips as detect_hand leaves it for the contour c: the fallback is
\* tried only inside the two branches.
final_fingertips(c) ==
  IF c.hull_len > 3
    THEN IF c.defects # None
           THEN LET cand == candidate_points(c.defects[1], c.box)
                    fingertip_points ==
                      IF cand # << >>
                        THEN merge_close_points(filtered_candidates(cand))
                        ELSE << >>
                    single_pt == fallback_single_finger(c.contour, c.center)
                IN  IF Len(fingertip_points) = 0 /\ single_pt # None
                         /\ above_wrist(single_pt[1][2], c.box)
                      THEN <<single_pt[1]>>
                      ELSE fingertip_points
           ELSE << >>
    ELSE << >>

\* Contours: a hand 120 high with a raised finger, the same with the arm as
\* its farthest part, and a fist with no point 50 away from its centre.
Contours ==
  {[box |-> Box(0, 0, 40, 120), center |-> <<20, 70>>,
    contour |-> << <<20, 0>>, <<0, 60>>, <<0, 119>>, <<39, 119>>, <<39, 60>> >>],
   [box |-> Box(0, 0, 40, 120), center |-> <<20, 40>>,
    contour |-> << <<20, 0>>, <<0, 60>>, <<0, 119>>, <<39, 119>>, <<39, 60>> >>],
   [box |-> Box(0, 0, 40, 41), center |-> <<20, 22>>,
    contour |-> << <<20, 0>>, <<0, 20>>, <<0, 40>>, <<39, 40>>, <<39, 20>> >>],
   [box |-> Box(0, 0, 61, 41), center |-> <<5, 20>>,
    contour |-> << <<0, 0>>, <<0, 40>>, <<60, 40>>, <<60, 0>> >>]}

Defect(start, end, far, d, ang) ==
  [start |-> start, end |-> end, far |-> far, d |-> d, ang |-> ang]

\* What convexityDefects can return: nothing, or defects that are too
\* shallow, too wide, below the wrist line, or that pass.
DefectRows ==
  {None,
   Some(<<Defect(<<20, 0>>, <<39, 20>>, <<30, 12>>, 5000, 60)>>),
   Some(<<Defect(<<20, 0>>, <<39, 20>>, <<30, 12>>, 9000, 100)>>),
   Some(<<Defect(<<0, 40>>, <<39, 40>>, <<20, 35>>, 9000, 60)>>),
   Some(<<Defect(<<20, 0>>, <<39, 20>>, <<30, 12>>, 9000, 60)>>),
   Some(<<Defect(<<20, 0>>, <<39, 20>>, <<30, 12>>, 9000, 60),
          Defect(<<39, 20>>, <<0, 20>>, <<20, 25>>, 9000, 60)>>),
   Some(<<Defect(<<20, 0>>, <<30, 3>>, <<25, 12>>, 9000, 60),
          Defect(<<0, 20>>, <<20, 0>>, <<10, 14>>, 500, 60)>>)}

HullLengths == {3, 4, 5}

TipsInit ==
  /\ Globals
  /\ score_call = NoScore
  /\ \E c \in Contours : \E n \in HullLengths : \E d \in DefectRows :
       call = [op |-> "input", box |-> c.box, center |-> c.center,
               contour |-> c.contour, hull_len |-> n, defects |-> d,
               final_fingertips |-> << >>]

FinalFingertips ==
  /\ call.op = "input"
  /\ call' = [call EXCEPT !.op = "final_fingertips",
                          !.final_fingertips = final_fingertips(call)]
  /\ UNCHANGED <<calibVars, stageVars, score_call>>

TipsNext == FinalFingertips

SpecTips == TipsInit /\ [][TipsNext]_vars

(***************************************************************************)
(* detect_hand: the colour mask of one pixel of the region of interest.    *)
(* Mask values are 0 and 255.                                              *)
(***************************************************************************)
\* cv2.inRange on a pixel of three channels.
in_range(px, lower, upper) ==
  IF \A i \in 1..3 : lower[i] <= px[i] /\ px[i] <= upper[i] THEN 255 ELSE 0

\* cv2.addWeighted(mask_hsv, 0.40, mask_ycrcb, 0.60, 0), rounded and
\* saturated to 8 bits.
add_weighted(m_hsv, m_ycrcb) == Min(255, (40 * m_hsv + 60 * m_ycrcb + 50) \div 100)

\* cv2.threshold(combined_mask, 50, 255, cv2.THRESH_BINARY).
threshold_binary_at_midpoint(v) == IF v > 127 THEN 255 ELSE 0

threshold_binary(v) == IF v > 50 THEN 255 ELSE 0

\* mask_hsv, mask_ycrcb, combined_mask and color_mask at one pixel.
color_mask(hsv, ycrcb, r) ==
  LET m_hsv == in_range(hsv, r.l_hsv, r.u_hsv)
      m_ycrcb == in_range(ycrcb, r.l_ycrcb, r.u_ycrcb)
      combined == add_weighted(m_hsv, m_ycrcb)
  IN  [mask_hsv |-> m_hsv, mask_ycrcb |-> m_ycrcb, combined_mask |-> combined,
       color_mask |-> threshold_binary(combined)]

\* The pixels: values on both sides of every bound of the ranges calibrated
\* from StageSamples.
HsvPixels == {5, 6, 14, 15} \X {29, 30} \X {59, 255}

YcrcbPixels == {0, 255} \X {139, 140, 160, 161} \X {89, 110, 111}

NoMask == [mask_hsv |-> 0, mask_ycrcb |-> 0, combined_mask |-> 0, color_mask |-> 0]

MaskInit ==
  /\ Globals
  /\ score_call = NoScore
  /\ \E s \in StageSamples : \E hsv \in HsvPixels : \E ycrcb \in YcrcbPixels :
       call = [op |-> "input", ranges |-> calibrate_skin_color(s), hsv |-> hsv,
               ycrcb |-> ycrcb, result |-> NoMask]

ColorMask ==
  /\ call.op = "input"
  /\ call' = [call EXCEPT !.op = "color_mask",
                          !.result = color_mask(call.hsv, call.ycrcb, call.ranges)]
  /\ UNCHANGED <<calibVars, stageVars, score_call>>

MaskNext == ColorMask

SpecMask == MaskInit /\ [][MaskNext]_vars

(***************************************************************************)
(* merge_close_points called on a list of up to three points, then on its  *)
(* own result.                                                             *)
(***************************************************************************)
ListXs == {0, 9, 19, 25, 40}

ListYs == {0, 5}

\* The lists of one, two or three candidate points.
PointLists ==
  LET P == ListXs \X ListYs
  IN  {<<p>> : p \in P} \cup {<<p, q>> : p \in P, q \in P}
        \cup {<<p, q, r>> : p \in P, q \in P, r \in P}

RemergeInit ==
  /\ Globals
  /\ score_call = NoScore
  /\ \E points \in PointLists :
       call = [op |-> "input", points |-> points, merged |-> << >>, again |-> << >>]

MergeAgain ==
  /\ call.op = "input"
  /\ LET merged == merge_close_points(call.points)
     IN  call' = [call EXCEPT !.op = "merge_close_points", !.merged = merged,
                              !.again = merge_close_points(merged)]
  /\ UNCHANGED <<calibVars, stageVars, score_call>>

RemergeNext == MergeAgain

SpecRemerge == RemergeInit /\ [][RemergeNext]_vars

(***************************************************************************)
(* Claims about the calibrator, checked under SpecCalib.                   *)
(***************************************************************************)
RangeOrdered(lo, up) ==
  \A i \in 1..3 : lo[i] <= up[i] /\ lo[i] \in 0..255 /\ up[i] \in 0..255

\* Twice the distance of a sampled value v from the midpoint (lo + up) / 2 of
\* the integer values of two bounds.
TwiceDrift(v, lo, up) == Abs(2 * v - (lo + up))

\* The sample s is within the drift threshold of every midpoint of the range.
WithinDrift(s, lh, uh, ly, uy) ==
  /\ TwiceDrift(s.peak_hue, lh[1], uh[1]) <= 2 * TH
  /\ TwiceDrift(s.cr_mean, ly[2], uy[2]) <= 2 * TH
  /\ TwiceDrift(s.cb_mean, ly[3], uy[3]) <= 2 * TH

\* C1: after a manual calibration or a committed auto-recalibration both
\* colour ranges have lower <= upper in every component, and every component
\* is an 8-bit value.
C1_RangesOrderedAfterCalibration ==
  (calib_call.op = "manual" \/ (calib_call.op = "auto" /\ calib_call.committed))
    => /\ RangeOrdered(lower_skin_hsv, upper_skin_hsv)
       /\ RangeOrdered(lower_skin_ycrcb, upper_skin_ycrcb)

\* The four committed bounds as one record.
Committed ==
  [l_hsv |-> lower_skin_hsv, u_hsv |-> upper_skin_hsv,
   l_ycrcb |-> lower_skin_ycrcb, u_ycrcb |-> upper_skin_ycrcb]

\* C2: an auto-recalibration whose sample is more than 40 away from the
\* midpoint of the range it was called with, in hue, Cr or Cb, leaves the four
\* committed bounds as they were and returns the sampled box.
C2_DriftedSampleRejected ==
  (/\ calib_call.op = "auto"
   /\ ~WithinDrift(calib_call.s[1],
                   calib_call.before[1].l_hsv, calib_call.before[1].u_hsv,
                   calib_call.before[1].l_ycrcb, calib_call.before[1].u_ycrcb))
    => /\ Committed = calib_call.before[1]
       /\ calib_call.ret = Some(sample_box(calib_call.centre[1], calib_call.centre[2],
                                           ScreenW, ScreenH, 50))

\* C3: an auto-recalibration whose sample is within 40 of the midpoint
\* floor((lower + upper) / 2) of the integer values of the bounds it was
\* called with, in hue, Cr and Cb, commits the newly computed ranges.
C3_SampleWithinDriftCommitted ==
  (/\ calib_call.op = "auto"
   /\ Abs(calib_call.s[1].peak_hue
            - (calib_call.before[1].l_hsv[1] + calib_call.before[1].u_hsv[1]) \div 2) <= TH
   /\ Abs(calib_call.s[1].cr_mean
            - (calib_call.before[1].l_ycrcb[2] + calib_call.before[1].u_ycrcb[2]) \div 2)
        <= TH
   /\ Abs(calib_call.s[1].cb_mean
            - (calib_call.before[1].l_ycrcb[3] + calib_call.before[1].u_ycrcb[3]) \div 2)
        <= TH)
    => /\ calib_call.committed
       /\ Committed = new_ranges(calib_call.s[1])

(***************************************************************************)
(* Claims about the scorer, checked under SpecScore.                       *)
(***************************************************************************)
Scored == score_call.op = "score"

Overlap == Cardinality(score_call.result.user_dil \cap score_call.result.ref_dil)

Union == Cardinality(score_call.result.user_dil \cup score_call.result.ref_dil)

\* C9: the score of two equally sized pictures is min(100, 100 * |I| / |U| *
\* 1.1) of the dilated foreground sets (here in hundredths, rounded down), it
\* lies in 0..100, and it is 0 when the dilated sets are disjoint, the empty
\* union included.
C9_ScoreIsCappedWeightedOverlap ==
  Scored =>
    /\ score_call.result.final_score \in 0..10000
    /\ Overlap = 0 => score_call.result.final_score = 0
    /\ Union > 0 =>
         /\ score_call.result.final_score * Union <= 11000 * Overlap
         /\ \/ score_call.result.final_score = 10000
            \/ (score_call.result.final_score + 1) * Union > 11000 * Overlap
         /\ 11000 * Overlap >= 10000 * Union => score_call.result.final_score = 10000

\* C9 witness: two pictures whose dilated marks overlap in part were scored
\* below 100, and the score is not 0.
C9_PartialOverlapScored ==
  /\ Scored
  /\ 0 < Overlap /\ Overlap < Union
  /\ score_call.result.final_score \in 1..9999

\* The picture was scored against itself: both binarised foregrounds are the
\* same set.
SelfScored == Scored /\ score_call.result.user_bin = score_call.result.ref_bin

\* C10 as claimed: every picture scored against itself, the one with no
\* foreground pixel included, scores exactly 100.
C10_SelfScoreIsAlways100 ==
  SelfScored => score_call.result.final_score = 10000

\* C10 as amended: a picture with at least one foreground pixel scored against
\* itself scores exactly 100; the picture with no foreground pixel scores 0.
C10_SelfScoreIs100UnlessEmpty ==
  SelfScored =>
    score_call.result.final_score =
      IF score_call.result.user_bin = {} THEN 0 ELSE 10000

\* C10 witness: a picture with foreground pixels was scored against itself.
C10_NonEmptySelfScored ==
  /\ SelfScored
  /\ score_call.result.user_bin # {}
  /\ score_call.result.user_dil = score_call.result.ref_dil

(***************************************************************************)
(* Claims about detect_hand and the smoother, checked under Spec.          *)
(***************************************************************************)
\* The last frame of the drawing loop came out of detect_hand.
FrameSeen == last_frame.n > 0 /\ last_frame.raised # "detect_hand"

\* detect_hand found a hand in it and updated the smoother.
HandSeen == FrameSeen /\ "smooth" \in last_frame.path

\* The measurement of the last frame.
Measured ==
  measurement(last_frame.det.after[1].box, last_frame.offset[1], last_frame.offset[2])

\* C4: the largest contour is the hand candidate exactly when its area exceeds
\* 500. Above 500 the forearm is trimmed and, for what the trim leaves, the
\* smoother is updated and the fingertips are extracted; at 500 or below, or
\* with no contour, the fingertip list is empty and the smoother is unchanged.
C4_HandCandidateAbove500 ==
  FrameSeen =>
    /\ last_frame.det.area_m > 500 =>
         /\ "trim" \in last_frame.path
         /\ (last_frame.det.after # None /\ last_frame.det.after[1].area2 > 500) =>
              /\ "smooth" \in last_frame.path
              /\ (last_frame.det.hull_len > 3 /\ last_frame.det.defects) =>
                   "extract" \in last_frame.path
    /\ last_frame.det.area_m <= 500 =>
         /\ last_frame.final_fingertips = << >>
         /\ kalman = last_frame.kalman
         /\ smoothed_center = last_frame.smoothed_center

\* C5: after the first acquisition, a frame with no hand makes the smoother
\* predict and exposes the predicted position as smoothed_center; a frame with
\* a hand makes it predict, then correct with the measured centre.
C5_SmootherCoastsWithoutHand ==
  (FrameSeen /\ last_frame.smoothed_center # None) =>
    IF "smooth" \in last_frame.path
      THEN /\ kalman = kalman_correct(kalman_predict(last_frame.kalman), Measured)
           /\ smoothed_center = <<kalman.x, kalman.y>>
      ELSE /\ kalman = kalman_predict(last_frame.kalman)
           /\ smoothed_center = <<kalman.x, kalman.y>>

\* The smoother stands at the measurement z with no velocity.
SeededAt(kf, z) == kf.x = z[1] /\ kf.y = z[2] /\ kf.vx = 0 /\ kf.vy = 0

\* C6 as claimed: the smoother is seeded at the measurement, with velocity 0,
\* on the first acquisition and again whenever a hand is acquired after one or
\* more frames without a hand.
C6_ReseededAfterGap ==
  (HandSeen /\ (last_frame.smoothed_center = None \/ last_frame.after_gap)) =>
    /\ SeededAt(kalman, Measured)
    /\ smoothed_center = Measured

\* A step of the drawing loop in which detect_hand finds a hand.
HandStep ==
  /\ pc = "loop"
  /\ reads' = reads + 1
  /\ last_frame'.raised # "detect_hand"
  /\ "smooth" \in last_frame'.path

\* The measurement of the frame of the step.
MeasuredNext ==
  measurement(last_frame'.det.after[1].box, last_frame'.offset[1], last_frame'.offset[2])

\* C6 as amended: the smoother is seeded at the measurement, with velocity 0,
\* on the first acquisition only; from then on every frame with a hand, also
\* the first after frames without one, predicts and corrects from the state
\* the smoother was left in; every other step, frames without a hand and the
\* change of stage included, leaves the smoother as it is.
C6_SeededOnceThenKept ==
  [][IF HandStep
       THEN IF smoothed_center = None
              THEN SeededAt(kalman', MeasuredNext) /\ smoothed_center' = MeasuredNext
              ELSE /\ kalman' = kalman_correct(kalman_predict(kalman), MeasuredNext)
                   /\ smoothed_center' = <<kalman'.x, kalman'.y>>
       ELSE UNCHANGED <<kalman, smoothed_center>>]_vars

\* C6 witness: a hand was acquired after a frame without one, and the smoother,
\* not seeded again, lags behind the measurement.
C6_AcquiredAfterGapNotSeeded ==
  /\ HandSeen
  /\ last_frame.after_gap
  /\ last_frame.smoothed_center # None
  /\ <<kalman.x, kalman.y>> # Measured

(***************************************************************************)
(* Claim about the auto-recalibration of the stage loop, checked under     *)
(* SpecLong.                                                               *)
(***************************************************************************)
\* C7: whenever the stage loop calls the auto-recalibration, the centre it
\* samples around is the smoother's smoothed_center (to the pixel).
C7_CalibrationCentreIsSmoothed ==
  (last_frame.n > 0 /\ last_frame.calib_centre # None) =>
    /\ smoothed_center # None
    /\ Abs(2 * last_frame.calib_centre[1] - smoothed_center[1]) <= 1
    /\ Abs(2 * last_frame.calib_centre[2] - smoothed_center[2]) <= 1

(***************************************************************************)
(* Claim about the gesture logic, checked under SpecDraw.                  *)
(***************************************************************************)
\* A step of the drawing loop that reaches the gesture logic.
GestureStep ==
  /\ pc = "loop"
  /\ reads' = reads + 1
  /\ last_frame'.raised \in {"none", "transparent_overlay_edges"}

Line(p, q) == [op |-> "line", p |-> p, q |-> q, r |-> 3]

Erase(p, q) ==
  LET m == <<(p[1] + q[1]) \div 2, (p[2] + q[2]) \div 2>>
  IN  [op |-> "circle", p |-> m, q |-> m, r |-> 15]

\* No two of the points of f are closer than f[i] and f[j].
Closest(f, i, j) ==
  \A k, l \in 1..Len(f) : k # l => DistSq(f[i], f[j]) <= DistSq(f[k], f[l])

\* C8: in every frame the fingertip count alone decides what happens to the
\* canvas: 1 draws a line from the last point to the fingertip (nothing when
\* there is no last point) and records the fingertip; 2 or 3 erase a circle at
\* the integer midpoint of the two closest fingertips; 5 makes the canvas
\* white; any other count leaves the canvas as it is.
C8_CanvasFollowsFingertipCount ==
  [][GestureStep =>
       LET f == last_frame'.final_fingertips
           n == Len(f)
       IN  /\ n = 1 =>
                /\ canvas' = IF last_finger_point = None THEN canvas
                              ELSE Append(canvas, Line(last_finger_point, f[1]))
                /\ last_finger_point' = f[1]
           /\ n \in {2, 3} =>
                \E i, j \in 1..n :
                  /\ i < j
                  /\ Closest(f, i, j)
                  /\ canvas' = Append(canvas, Erase(f[i], f[j]))
           /\ n = 5 => canvas' = << >>
           /\ n \notin {1, 2, 3, 5} => canvas' = canvas]_vars

\* C8 witness: a line was drawn, then three fingertips erased a circle.
C8_LineThenErase ==
  /\ Len(canvas) = 2
  /\ canvas[1].op = "line"
  /\ canvas[2].op = "circle"
  /\ Len(last_frame.final_fingertips) = 3

(***************************************************************************)
(* Claims about the ways out of a stage, checked under Spec.               *)
(***************************************************************************)
\* C12: a stage whose frame source has no frame, or whose drawing loop is
\* left by 'q', ends without an exception: the code after the loop never
\* reads a name the loop left unassigned.
C12_LoopExitsReachTheReturn == error # "UnboundLocalError: user_bin"

\* C13: a stage without a reference picture (no file chosen, or a file that
\* cannot be read) runs without an exception: no step reads an unassigned or
\* None reference mask.
C13_NoReferenceRunsQuietly ==
  error \notin {"UnboundLocalError: ref_edges", "AttributeError: ref_cropped"}

(***************************************************************************)
(* Claims about the region of interest and the scoring, checked under Spec.*)
(***************************************************************************)
\* The rectangle r lies in the frame and has a pixel.
InFrame(r) ==
  /\ 0 <= r.x /\ 0 <= r.y
  /\ r.w >= 1 /\ r.h >= 1
  /\ r.x + r.w <= ScreenW
  /\ r.y + r.h <= ScreenH

\* C18: whenever detect_hand is called, the region of interest it is called
\* on lies within the frame and is not empty, also on the frame after a
\* contour whose box scaled by 1.5 is wider or taller than the screen.
C18_RegionWithinFrameAtEveryCall == last_frame.n > 0 => InFrame(last_frame.roi)

\* C18 witness: the third frame follows a contour whose scaled box (112 high)
\* is taller than the screen, and is cut to the whole height of the frame.
C18_CalledAfterOversizedBox ==
  /\ last_frame.n = 3
  /\ last_frame.raised = "none"
  /\ last_frame.roi.y = 0
  /\ last_frame.roi.h = ScreenH
  /\ roi_h[1] > ScreenH

\* A step that is one frame of the drawing loop.
FrameOfLoop == pc = "loop" /\ reads' = reads + 1

\* C19: the scorer runs on a frame only when the time left has reached 0; the
\* frame that scores ends the loop and the stage, so a stage scores at most
\* once; the score goes to the total with the canvas as that frame left it,
\* and outside the drawing loop nothing touches the canvas or the total until
\* the next stage makes its new canvas.
C19_ScoredOnceWhenTimeIsUp ==
  [][/\ FrameOfLoop =>
          /\ last_frame'.scored =>
               /\ left' <= 0
               /\ pc' \in {"stage_start", "game_over"}
               /\ pc' = "stage_start" => stage' = stage + 1
               /\ total_score' \in {total_score + v : v \in ScoreValues}
               /\ canvas' = gesture(canvas, last_finger_point,
                                    last_frame'.final_fingertips).canvas
          /\ ~last_frame'.scored => total_score' = total_score /\ stage' = stage
          /\ left' > 0 => ~last_frame'.scored
     /\ ~FrameOfLoop =>
          /\ total_score' = total_score
          /\ last_frame' = last_frame
          /\ pc # "calibrate" => canvas' = canvas
          /\ stage' = stage \/ (pc = "countdown" /\ pc' \in {"stage_start", "game_over"})]_vars

\* C19 witness: the first stage was scored on a frame with no time left and
\* a line on the canvas, and the second stage is about to start.
C19_FirstStageScored ==
  /\ last_frame.scored
  /\ stage = 2
  /\ pc = "stage_start"
  /\ left = 0
  /\ total_score > 0
  /\ canvas # << >>

\* C20: a frame that shows no hand (no contour, or a largest contour of area
\* 500 or less) leaves the region of interest as the frame found it and the
\* committed colour ranges as they were.
C20_NoHandLeavesRegionAndRanges ==
  (FrameSeen /\ last_frame.raised = "none" /\ last_frame.det.area_m <= 500) =>
    /\ [x |-> roi_x[1], y |-> roi_y[1], w |-> roi_w[1], h |-> roi_h[1]] = last_frame.roi
    /\ last_frame.calib_centre # None => Committed = calib_call.before[1]

(***************************************************************************)
(* Claims about the fitting of the reference, checked under SpecPad.       *)
(***************************************************************************)
Matched == call.op = "match_reference"

\* C11 as claimed: when the sizes differ, in either direction, the smaller
\* picture is zero-padded and centred, so the scorer gets every foreground
\* pixel of the reference; nothing is cropped.
C11_PaddingKeepsEveryPixel ==
  Matched => Cardinality(call.ref_matched) = Cardinality(call.ref)

\* C11 as amended: the scorer gets the user drawing as it is and a reference
\* of the same size. In a dimension where the reference is smaller it is
\* centred between zero margins (the margin before it is the smaller one when
\* they differ) and keeps every foreground pixel; in a dimension where it is
\* larger only its first rows or columns, as many as the canvas has, are
\* kept and the rest is dropped. Nothing is rescaled.
C11_ReferencePaddedOrCut ==
  Matched =>
    LET top == IF call.h_ref < call.h_user
                 THEN (call.h_user - call.h_ref) \div 2 ELSE 0
        left_ == IF call.w_ref < call.w_user
                   THEN (call.w_user - call.w_ref) \div 2 ELSE 0
    IN  /\ call.ref_matched \subseteq (0..(call.h_user - 1)) \X (0..(call.w_user - 1))
        /\ \A p \in (0..(call.h_user - 1)) \X (0..(call.w_user - 1)) :
             p \in call.ref_matched <=> <<p[1] - top, p[2] - left_>> \in call.ref
        /\ (call.h_ref <= call.h_user /\ call.w_ref <= call.w_user) =>
             Cardinality(call.ref_matched) = Cardinality(call.ref)
        /\ \A q \in call.ref :
             (q[1] >= call.h_user \/ q[2] >= call.w_user) =>
               <<top + q[1], left_ + q[2]>> \notin call.ref_matched

\* C11 witness: a reference higher and narrower than the canvas lost a pixel
\* below the canvas and kept one, moved to the middle column.
C11_CutBelowPaddedAside ==
  /\ Matched
  /\ call.h_ref > call.h_user
  /\ call.w_ref = 1
  /\ call.ref = {<<0, 0>>, <<2, 0>>}
  /\ call.ref_matched = {<<0, 1>>}

(***************************************************************************)
(* Claims about the forearm trim, checked under SpecCut.                   *)
(***************************************************************************)
CutCalled == call.op = "cut_forearm_automatically"

\* The width of the row i rows above the bottom row of the box.
WidthAbove(i) == row_width(call.mask, call.y + call.h - 1 - i, call.x, call.w)

\* Rows i - 1 and i above the bottom are each less than half as wide as the
\* row below them.
ContractionAt(i) ==
  /\ 2 * WidthAbove(i - 1) < WidthAbove(i - 2)
  /\ 2 * WidthAbove(i) < WidthAbove(i - 1)

Contractions == {i \in 2..(call.h - 1) : ContractionAt(i)}

\* C14: scanning the rows of the box from the bottom up, when the width drops
\* below half of the width of the row before for 2 rows in a row (and the box
\* is at least 10 high), the call returns True and the mask has no pixel left
\* from the second of these rows down to the bottom of the box, the rest
\* being as it was; otherwise it returns False and the mask is as it was.
C14_ForearmCutAtContraction ==
  CutCalled =>
    IF call.h >= 10 /\ Contractions # {}
      THEN LET i == CHOOSE j \in Contractions : \A k \in Contractions : j <= k
               row_cut == call.y + call.h - 1 - i
           IN  /\ call.ret
               /\ \A p \in call.out : p[1] < row_cut
               /\ call.out = {p \in call.mask : p[1] < row_cut}
      ELSE ~call.ret /\ call.out = call.mask

\* C14 witness: a box 12 high whose fourth and fifth row from the bottom are
\* 9 and 4 wide above rows 20 wide was cut, and the hand above is left.
C14_ArmCutBelowHand ==
  /\ CutCalled
  /\ call.h = 12
  /\ WidthAbove(2) = ArmWidth /\ WidthAbove(3) = 9 /\ WidthAbove(4) = 4
  /\ call.ret
  /\ call.out # {}
  /\ \A p \in call.out : p[1] < call.y + call.h - 1 - 4

\* C14 witness of the other branch: a box only 9 high with the same
\* contraction is left alone.
C14_LowBoxLeftAlone ==
  /\ CutCalled
  /\ call.h = 9
  /\ Contractions # {}
  /\ ~call.ret

(***************************************************************************)
(* Claims about the merging of candidate points, checked under SpecMerge.  *)
(***************************************************************************)
MergeCalled == call.op = "merge_close_points"

\* C16: of two points less than 20 apart exactly one point comes back, their
\* componentwise integer midpoint; two points 20 or more apart come back
\* both, in the order given and as they were.
C16_TwoPointsMergedBelow20 ==
  MergeCalled =>
    LET p == call.points[1]
        q == call.points[2]
        dx == p[1] - q[1]
        dy == p[2] - q[2]
    IN  IF dx * dx + dy * dy < 400
          THEN call.merged = << <<(p[1] + q[1]) \div 2, (p[2] + q[2]) \div 2>> >>
          ELSE call.merged = <<p, q>>

\* C16 witness: (0, 0) and (12, 16) are exactly 20 apart and both come back.
C16_ExactlyTwentyApartKept ==
  /\ MergeCalled
  /\ call.points = << <<0, 0>>, <<12, 16>> >>
  /\ call.merged = call.points

\* C16 witness of the other branch: (0, 0) and (19, 5) are merged into the
\* midpoint, rounded down.
C16_CloseTwoMerged ==
  /\ MergeCalled
  /\ call.points = << <<0, 0>>, <<19, 5>> >>
  /\ call.merged = << <<9, 2>> >>

(***************************************************************************)
(* Claims about the fingertips of a hand contour, checked under SpecTips.  *)
(***************************************************************************)
TipsCalled == call.op = "final_fingertips"

\* The squared distance of contour point i from the palm centre.
FromCentre(i) == DistSq(call.contour[i], call.center)

\* No defect of the contour passes the depth, angle and wrist tests: there
\* are no defects at all, the hull is too short for them, or none passes.
NoDefectPasses ==
  \/ call.hull_len <= 3
  \/ call.defects = None
  \/ \A k \in 1..Len(call.defects[1]) : ~is_candidate(call.defects[1][k], call.box)

\* C15: a hand contour without a qualifying defect, also one with no defects
\* at all or with a hull of 3 points or fewer, yields exactly one fingertip,
\* its farthest point from the palm centre, when that point is more than 50
\* pixels away and above the wrist line, and no fingertip when no point is
\* more than 50 pixels away.
C15_FallbackFingertipWithoutDefects ==
  (TipsCalled /\ NoDefectPasses) =>
    /\ \A i \in 1..Len(call.contour) :
         (/\ FromCentre(i) > 2500
          /\ \A j \in 1..Len(call.contour) : FromCentre(j) < FromCentre(i)
                                               \/ j = i
          /\ 20 * (call.contour[i][2] - call.box.y) < 13 * call.box.h)
           => call.final_fingertips = <<call.contour[i]>>
    /\ (\A i \in 1..Len(call.contour) : FromCentre(i) <= 2500)
         => call.final_fingertips = << >>

(***************************************************************************)
(* Claims about the colour mask, checked under SpecMask.                   *)
(***************************************************************************)
Masked == call.op = "color_mask"

InHsv == \A i \in 1..3 : call.ranges.l_hsv[i] <= call.hsv[i]
                           /\ call.hsv[i] <= call.ranges.u_hsv[i]

InYcrcb == \A i \in 1..3 : call.ranges.l_ycrcb[i] <= call.ycrcb[i]
                             /\ call.ycrcb[i] <= call.ranges.u_ycrcb[i]

\* The blend 0.40 * mask_hsv + 0.60 * mask_ycrcb of the pixel.
Blend == (IF InHsv THEN 102 ELSE 0) + (IF InYcrcb THEN 153 ELSE 0)

\* C17 as claimed: the blend is thresholded at the midpoint of 0..255: the
\* pixel is set exactly when its blend is above 127, so a pixel in the HSV
\* range alone (102) is not set, and a pixel in the YCrCb range alone (153)
\* or in both is.
C17_BlendThresholdedAtMidpoint ==
  Masked => (call.result.color_mask = 255 <=> Blend > 127)

\* C17 as amended: the blend is thresholded at 50: the pixel is set exactly
\* when its blend is above 50, that is when it is in at least one of the two
\* ranges: in the HSV range alone (102), in the YCrCb range alone (153) or
\* in both (255); it is 0 when it is in neither.
C17_BlendThresholdedAt50 ==
  Masked =>
    /\ call.result.combined_mask = Blend
    /\ call.result.color_mask \in {0, 255}
    /\ call.result.color_mask = 255 <=> Blend > 50
    /\ call.result.color_mask = 255 <=> (InHsv \/ InYcrcb)

\* C17 witness: a pixel in the HSV range and outside the YCrCb range is set.
C17_HsvAloneIsSet ==
  /\ Masked
  /\ InHsv /\ ~InYcrcb
  /\ call.result.combined_mask = 102
  /\ call.result.color_mask = 255

(***************************************************************************)
(* Claim about the centre of the auto-recalibration, checked under         *)
(* SpecLong.                                                               *)
(***************************************************************************)
\* The bounding box of the contour detect_hand returned in the last frame.
FoundBox == last_frame.max_contour[1].box

\* C21: whenever the stage loop calls the auto-recalibration, the centre it
\* passes is the centre of the contour's bounding box in frame coordinates,
\* the origin being that of the region of interest the contour was found in;
\* so the centre lies in the frame and the box sampled around it has pixels.
C21_CalibrationCentreInDetectionRegion ==
  (last_frame.n > 0 /\ last_frame.calib_centre # None) =>
    /\ last_frame.calib_centre =
         <<last_frame.roi.x + FoundBox.x + FoundBox.w \div 2,
           last_frame.roi.y + FoundBox.y + FoundBox.h \div 2>>
    /\ last_frame.calib_centre[1] \in 0..(ScreenW - 1)
    /\ last_frame.calib_centre[2] \in 0..(ScreenH - 1)
    /\ ~region_empty(sample_box(last_frame.calib_centre[1], last_frame.calib_centre[2],
                                ScreenW, ScreenH, 50))

(***************************************************************************)
(* Claim about the strokes on the canvas, checked under SpecDraw.          *)
(***************************************************************************)
\* The step draws a line on the canvas.
LineDrawn ==
  /\ GestureStep
  /\ Len(canvas') = Len(canvas) + 1
  /\ canvas'[Len(canvas')].op = "line"

\* C22: every line drawn joins the fingertips of two consecutive frames of
\* the stage that both showed exactly one fingertip: after a frame with any
\* other count, 0, 4 and 6 included, the next frame with one fingertip draws
\* no line.
C22_LinesJoinConsecutiveSingleTips ==
  [][LineDrawn =>
       /\ local_frame_count > 0
       /\ last_frame.n = local_frame_count
       /\ Len(last_frame.final_fingertips) = 1
       /\ Len(last_frame'.final_fingertips) = 1
       /\ canvas'[Len(canvas')].p = last_frame.final_fingertips[1]
       /\ canvas'[Len(canvas')].q = last_frame'.final_fingertips[1]]_vars

(***************************************************************************)
(* Claim about merging a merged list, checked under SpecRemerge.           *)
(***************************************************************************)
\* C23: the list merge_close_points returns holds no two points less than 20
\* apart, so merging it again returns the same list.
C23_MergedListIsStable ==
  call.op = "merge_close_points" =>
    /\ \A i, j \in 1..Len(call.merged) :
         i # j => DistSq(call.merged[i], call.merged[j]) >= 400
    /\ call.again = call.merged

====
